---- MODULE Spec2Model ----
(***************************************************************************)
(* A model of the live-conversation panel (components/LiveConversation.tsx) *)
(* of the Ghoest Poem demo: the PCM frame encoder, the turn aggregator, the *)
(* playback scheduler and the session life cycle around liveConnect.        *)
(*                                                                          *)
(* Text is modelled as a sequence of one-character strings, time as whole   *)
(* ticks of the output AudioContext clock, a playback rate as tenths        *)
(* (10 = 1.0x) and an audio sample as a rational Num / SampleDen.           *)
(***************************************************************************)
EXTENDS Integers, Sequences, FiniteSets, TLC

\* ------------------------------------------------------------------------
\* Bounds of the model
\* ------------------------------------------------------------------------
MaxTextLen == 6        \* characters held in the pending turn and the transcript
MaxTranscript == 2     \* longest transcript a message may build up
MaxCitations == 1      \* source citations held in the pending turn
MaxClock == 2          \* last tick of the output clock
MaxSources == 3        \* most sources alive in sourcesRef at once
MaxAttempts == 2       \* startConversation invocations per mounted panel
MaxCtxOps == 1         \* suspend()/resume() promises pending at once
MaxSent == 1           \* sendRealtimeInput calls recorded per session
MaxArrivedText == 2    \* characters of the fragments logged as they arrive
MaxRetriesTried == 3    \* withRetry is tried with maxRetries 0 .. MaxRetriesTried
SampleDen == 200       \* samples are Num / SampleDen, Num \in -SampleDen..SampleDen
MaxGenerations == 2    \* handleGenerate calls of the video panel
MaxChecks == 2         \* checkVideoOperation calls of one operation in flight
MaxTurns == 2          \* choices made in the adventure game
MaxSends == 2          \* handleSend calls of the chat panel
MaxChunks == 2         \* chunks of one streamed answer
MaxToggles == 2        \* changes of the Web Search toggle

\* ------------------------------------------------------------------------
\* Strings
\* ------------------------------------------------------------------------
Lower == <<"a","b","c","d","e","f","g","h","i","j","k","l","m",
           "n","o","p","q","r","s","t","u","v","w","x","y","z">>
Upper == <<"A","B","C","D","E","F","G","H","I","J","K","L","M",
           "N","O","P","Q","R","S","T","U","V","W","X","Y","Z">>

Range(s) == {s[i] : i \in 1..Len(s)}

\* String.prototype.trim strips white space; the model's white space is " ".
IsSpace(c) == c = " "

\* \w of a JavaScript regular expression.
IsWordChar(c) == c \in Range(Lower) \cup Range(Upper) \cup {"_"}

\* The i flag of the regular expression: letters compare by their lower case.
ToLower(c) ==
    IF c \in Range(Upper)
    THEN Lower[CHOOSE i \in 1..Len(Upper) : Upper[i] = c]
    ELSE c

RECURSIVE TrimStart(_)
TrimStart(s) ==
    IF s # <<>> /\ IsSpace(Head(s)) THEN TrimStart(Tail(s)) ELSE s

RECURSIVE TrimEnd(_)
TrimEnd(s) ==
    IF s # <<>> /\ IsSpace(s[Len(s)]) THEN TrimEnd(SubSeq(s, 1, Len(s) - 1)) ELSE s

Trim(s) == TrimEnd(TrimStart(s))

Stars(n) == [i \in 1..n |-> "*"]

SFW_PROFANITY_LIST ==
    << <<"d","a","r","n">>, <<"h","e","c","k">>, <<"g","o","s","h">>,
       <<"s","h","o","o","t">> >>

\* A match of the word without the \b at its two ends.
MatchesAtAnywhere(text, word, i) ==
    /\ i + Len(word) - 1 <= Len(text)
    /\ \A k \in 1..Len(word) : ToLower(text[i + k - 1]) = word[k]

\* Does \bword\b (flags gi) match text at position i?
MatchesAt(text, word, i) ==
    /\ i + Len(word) - 1 <= Len(text)
    /\ \A k \in 1..Len(word) : ToLower(text[i + k - 1]) = word[k]
    /\ (i = 1 \/ ~IsWordChar(text[i - 1]))
    /\ (i + Len(word) > Len(text) \/ ~IsWordChar(text[i + Len(word)]))

\* text.replace(/\bword\b/gi, '*'.repeat(word.length)), scanning from i.
RECURSIVE ReplaceFrom(_, _, _)
ReplaceFrom(text, word, i) ==
    IF i > Len(text) THEN <<>>
    ELSE IF MatchesAt(text, word, i)
         THEN Stars(Len(word)) \o ReplaceFrom(text, word, i + Len(word))
         ELSE <<text[i]>> \o ReplaceFrom(text, word, i + 1)

RECURSIVE FilterWords(_, _)
FilterWords(text, words) ==
    IF words = <<>> THEN text
    ELSE FilterWords(ReplaceFrom(text, Head(words), 1), Tail(words))

filterProfanity(text) == FilterWords(text, SFW_PROFANITY_LIST)

\* ------------------------------------------------------------------------
\* Turn aggregator: the updater passed to setCurrentTurn in onmessage
\* ------------------------------------------------------------------------
EmptyTurn == [user |-> <<>>, model |-> <<>>, modelSources |-> <<>>]

UserEntry(text) == [speaker |-> "user", text |-> text, sources |-> <<>>]
ModelEntry(text, sources) == [speaker |-> "model", text |-> text, sources |-> sources]

\* if (hasOutput && newTurn.user): finalize the user text at a speaker switch.
SwitchUpdates(turn, msg) ==
    IF msg.hasOutput /\ turn.user # <<>> /\ Trim(turn.user) # <<>>
    THEN <<UserEntry(filterProfanity(Trim(turn.user)))>>
    ELSE <<>>

\* A speaker switch that records the user entry and keeps the text pending.
AfterSwitchKeepsUser(turn, msg) == turn

AfterSwitch(turn, msg) ==
    IF msg.hasOutput /\ turn.user # <<>> THEN [turn EXCEPT !.user = <<>>] ELSE turn

\* An updater that puts each fragment in front of the pending text.
AppendedInFront(turn, msg) ==
    [user |-> IF msg.hasInput THEN msg.inputText \o turn.user ELSE turn.user,
     model |-> IF msg.hasOutput THEN msg.outputText \o turn.model ELSE turn.model,
     modelSources |-> turn.modelSources \o msg.newSources]

\* newTurn.user += input text; newTurn.model += output text; sources appended.
Appended(turn, msg) ==
    [user |-> IF msg.hasInput THEN turn.user \o msg.inputText ELSE turn.user,
     model |-> IF msg.hasOutput THEN turn.model \o msg.outputText ELSE turn.model,
     modelSources |-> turn.modelSources \o msg.newSources]

\* A finalizer that tests the pending user text before trimming it.
CompleteUserUpdatesUntrimmed(turn) ==
    IF turn.user # <<>>
    THEN <<UserEntry(filterProfanity(Trim(turn.user)))>>
    ELSE <<>>

\* if (isTurnComplete): the user entry, then the model entry.
CompleteUserUpdates(turn) ==
    IF Trim(turn.user) # <<>>
    THEN <<UserEntry(filterProfanity(Trim(turn.user)))>>
    ELSE <<>>

CompleteModelUpdates(turn) ==
    IF turn.model # <<>> THEN <<ModelEntry(turn.model, turn.modelSources)>> ELSE <<>>

\* A finalizer that pushes the model entry before the user entry.
CompleteUpdatesModelFirst(turn) ==
    CompleteModelUpdates(turn) \o CompleteUserUpdates(turn)

CompleteUpdates(turn) == CompleteUserUpdates(turn) \o CompleteModelUpdates(turn)

\* The updater finds pending user text that trims to nothing and drops it.
DropsBlankUserText(turn, msg) ==
    \/ msg.hasOutput /\ turn.user # <<>> /\ Trim(turn.user) = <<>>
    \/ /\ msg.turnComplete
       /\ Appended(AfterSwitch(turn, msg), msg).user # <<>>
       /\ Trim(Appended(AfterSwitch(turn, msg), msg).user) = <<>>

\* The turn the updater returns.
NewTurn(prevTurn, msg) ==
    IF msg.turnComplete THEN EmptyTurn ELSE Appended(AfterSwitch(prevTurn, msg), msg)

\* The entries the updater hands to setTranscript.
TranscriptUpdates(prevTurn, msg) ==
    SwitchUpdates(prevTurn, msg)
        \o (IF msg.turnComplete
            THEN CompleteUpdates(Appended(AfterSwitch(prevTurn, msg), msg))
            ELSE <<>>)

\* ------------------------------------------------------------------------
\* PCM frame encoder (onaudioprocess) and decoder (decodeAudioData)
\* ------------------------------------------------------------------------
\* Number -> integer as a typed-array store does it: toward zero.
TruncDiv(a, b) == IF a >= 0 THEN a \div b ELSE -((-a) \div b)

\* The store into an Int16Array element: modulo 2^16, two's complement.
ToInt16(x) == ((x + 32768) % 65536) - 32768

\* int16[i] = inputData[i] * 32768, for the sample num / den.
EncodeSample(num, den) == ToInt16(TruncDiv(num * 32768, den))

\* new Uint8Array(int16.buffer): the two bytes of one element, low byte first.
ToBytes(v) == LET u == (v + 65536) % 65536 IN <<u % 256, u \div 256>>

\* new Int16Array(data.buffer): one element from its two bytes.
FromBytes(b) == LET u == b[1] + 256 * b[2] IN IF u >= 32768 THEN u - 65536 ELSE u

\* channelData[i] = dataInt16[i] / 32768.0: the numerator over 32768.
DecodeSample(b) == FromBytes(b)

\* ------------------------------------------------------------------------
\* Playback scheduler
\* ------------------------------------------------------------------------
\* ------------------------------------------------------------------------
\* withRetry (geminiService.ts)
\* ------------------------------------------------------------------------
\* maxRetries = 3, initialDelay = 2000
DefaultMaxRetries == 3
InitialDelay == 2000

\* String.prototype.includes
Includes(text, pat) ==
    \E i \in 0..(Len(text) - Len(pat)) :
        \A j \in 1..Len(pat) : text[i + j] = pat[j]

\* What apiCall fails with: the HTTP status of the response (0 when there is
\* none) and the text of error.toString().
NoError == [status |-> 0, text |-> <<>>]
Errors ==
    { [status |-> 429, text |-> <<"4","2","9">>],
      [status |-> 500, text |-> <<"5","0","0">>],
      [status |-> 502, text |-> <<"5","0","2">>],
      [status |-> 503, text |-> <<"5","0","3">>],
      [status |-> 400, text |-> <<"4","0","0">>],
      [status |-> 404, text |-> <<"4","0","4">>],
      [status |-> 400, text |-> <<"4","0","0"," ","i","d"," ","1","4","2","9","0">>],
      [status |-> 0, text |-> <<"n","o"," ","i","m","a","g","e">>] }

\* Math.random() * 1000, in milliseconds.
Jitters == {0, 999}

\* error.toString().includes('429') || error.toString().includes('500')
isRetryable(error) ==
    Includes(error.text, <<"4","2","9">>) \/ Includes(error.text, <<"5","0","0">>)

\* initialDelay * Math.pow(2, retries - 1) + Math.random() * 1000
Delay(retries, jitter) == InitialDelay * 2^(retries - 1) + jitter

\* return await apiCall()
Returned(c) ==
    [c EXCEPT !.attempts = c.attempts + 1, !.result = c.attempts + 1,
              !.pc = "returned"]

\* A catch block that allows one retry more than maxRetries.
CaughtOneMore(c, e, jitter) ==
    IF isRetryable(e) /\ c.retries <= c.maxRetries
    THEN [c EXCEPT !.attempts = c.attempts + 1, !.error = e,
                   !.retries = c.retries + 1,
                   !.delay = Delay(c.retries + 1, jitter),
                   !.waits = c.waits + 1, !.pc = "waiting"]
    ELSE [c EXCEPT !.attempts = c.attempts + 1, !.error = e, !.thrown = e,
                   !.pc = "thrown"]

\* A catch block that retries whatever the error is.
CaughtRetriesAll(c, e, jitter) ==
    IF c.retries < c.maxRetries
    THEN [c EXCEPT !.attempts = c.attempts + 1, !.error = e,
                   !.retries = c.retries + 1,
                   !.delay = Delay(c.retries + 1, jitter),
                   !.waits = c.waits + 1, !.pc = "waiting"]
    ELSE [c EXCEPT !.attempts = c.attempts + 1, !.error = e, !.thrown = e,
                   !.pc = "thrown"]

\* catch (error): retry after the backoff, or throw error.
Caught(c, e, jitter) ==
    IF isRetryable(e) /\ c.retries < c.maxRetries
    THEN [c EXCEPT !.attempts = c.attempts + 1, !.error = e,
                   !.retries = c.retries + 1,
                   !.delay = Delay(c.retries + 1, jitter),
                   !.waits = c.waits + 1, !.pc = "waiting"]
    ELSE [c EXCEPT !.attempts = c.attempts + 1, !.error = e, !.thrown = e,
                   !.pc = "thrown"]

DefaultRate == 10
MinRate == 5
MaxRate == 20
Rates == {MinRate, DefaultRate, MaxRate}
\* Buffers of 0.5 s, 1 s and 2 s, in ticks of a quarter second.
Durations == {2, 4, 8}

Max(a, b) == IF a >= b THEN a ELSE b

\* audioBuffer.duration / playbackRateRef.current, the rate in tenths.
Advance(duration, rate) == (duration * 10) \div rate

\* source.start(nextStartTimeRef.current): the node handed to the audio graph.
NewSource(w, duration) ==
    [start |-> w.nextStartTimeRef, duration |-> duration, rate |-> w.playbackRateRef]

\* nextStartTimeRef.current += audioBuffer.duration / playbackRateRef.current
CursorAfter(w, duration) == w.nextStartTimeRef + Advance(duration, w.playbackRateRef)

\* A scheduler that starts every buffer at the clock reading of its arrival.
CursorAtClock(w) == w.currentTime

\* nextStartTimeRef.current = Math.max(nextStartTimeRef.current, ctx.currentTime)
CursorAtArrival(w) == Max(w.nextStartTimeRef, w.currentTime)

\* A state setter of an unmounted component changes nothing.
SetState(w, field, value) == IF w.mounted THEN [w EXCEPT ![field] = value] ELSE w

\* sourcesRef.current.forEach(source => source.stop())
StopSources(w) == {n \in w.nodes : n.start \notin w.sourcesRef}

\* The cursor handleStopPlayback leaves behind.
ResetCursor == 0

\* No message has arrived.
NothingArrived == [audio |-> <<>>, user |-> <<>>, model |-> <<>>]

\* No flush to remember.
NoFlush == [at |-> 0, cursor |-> 0, interrupted |-> FALSE, decoded |-> FALSE]

\* A flush that stops the sources and leaves the cursor where it was.
handleStopPlaybackKeepCursor(w) ==
    LET w1 == [w EXCEPT !.nodes = StopSources(w),
                        !.sourcesRef = {},
                        !.schedule = <<>>,
                        !.arrived.audio = <<>>,
                        !.lastFlush = [at |-> w.currentTime,
                                       cursor |-> w.nextStartTimeRef,
                                       interrupted |-> FALSE, decoded |-> FALSE]]
    IN IF w.ctxState = "suspended"
       THEN [w1 EXCEPT !.ctxOps = Append(w.ctxOps, "resume")]
       ELSE SetState(w1, "isPaused", FALSE)

\* A flush that stops the sources and forgets to clear sourcesRef.
handleStopPlaybackNoClear(w) ==
    LET w1 == [w EXCEPT !.nodes = StopSources(w),
                        !.nextStartTimeRef = ResetCursor,
                        !.schedule = <<>>,
                        !.arrived.audio = <<>>,
                        !.lastFlush = [at |-> w.currentTime,
                                       cursor |-> w.nextStartTimeRef,
                                       interrupted |-> FALSE, decoded |-> FALSE]]
    IN IF w.ctxState = "suspended"
       THEN [w1 EXCEPT !.ctxOps = Append(w.ctxOps, "resume")]
       ELSE SetState(w1, "isPaused", FALSE)

handleStopPlayback(w) ==
    LET w1 == [w EXCEPT !.nodes = StopSources(w),
                        !.sourcesRef = {},
                        !.nextStartTimeRef = ResetCursor,
                        !.schedule = <<>>,
                        !.arrived.audio = <<>>,
                        !.lastFlush = [at |-> w.currentTime,
                                       cursor |-> w.nextStartTimeRef,
                                       interrupted |-> FALSE, decoded |-> FALSE]]
    IN IF w.ctxState = "suspended"
       THEN [w1 EXCEPT !.ctxOps = Append(w.ctxOps, "resume")]
       ELSE SetState(w1, "isPaused", FALSE)

\* A pause that stops the sources it should only hold.
handlePauseResumeStops(w) ==
    IF w.ctxState = "running"
    THEN [w EXCEPT !.ctxOps = Append(w.ctxOps, "suspend"),
                   !.nodes = StopSources(w), !.sourcesRef = {}]
    ELSE IF w.ctxState = "suspended" THEN [w EXCEPT !.ctxOps = Append(w.ctxOps, "resume")]
    ELSE w

handlePauseResume(w) ==
    IF w.ctxState = "running" THEN [w EXCEPT !.ctxOps = Append(w.ctxOps, "suspend")]
    ELSE IF w.ctxState = "suspended" THEN [w EXCEPT !.ctxOps = Append(w.ctxOps, "resume")]
    ELSE w

\* The promise of ctx.suspend() or ctx.resume() settles: the context changes
\* state and the .then callback sets isPaused.
SettleCtxOp(w) ==
    LET op == Head(w.ctxOps)
        w1 == [w EXCEPT !.ctxOps = Tail(w.ctxOps),
                        !.ctxState = IF op = "suspend" THEN "suspended" ELSE "running"]
    IN SetState(w1, "isPaused", op = "suspend")

\* A rate effect that sets the ref and forgets the sources that are scheduled.
RateEffectRefOnly(w) == [w EXCEPT !.playbackRateRef = w.playbackRate]

\* useEffect([playbackRate]): the ref and every source of sourcesRef get the rate.
RateEffect(w) ==
    [w EXCEPT !.playbackRateRef = w.playbackRate,
              !.nodes = {IF n.start \in w.sourcesRef
                         THEN [n EXCEPT !.rate = w.playbackRate] ELSE n : n \in w.nodes}]

\* The chunk arrives with the clock past the end of the buffer scheduled
\* before it.
ArrivesLate(w) ==
    /\ w.schedule # <<>>
    /\ LET prev == w.schedule[Len(w.schedule)]
       IN w.currentTime > prev.start + Advance(prev.duration, prev.rate)

\* What onmessage does with the decoded buffer, after the await: the source
\* is created, started at the cursor and added to sourcesRef.
StartBuffer(w, duration) ==
    LET src == NewSource(w, duration)
    IN [w EXCEPT !.nodes = w.nodes \cup {src},
                 !.nextStartTimeRef = CursorAfter(w, duration),
                 !.sourcesRef = w.sourcesRef \cup {src.start},
                 !.schedule = Append(w.schedule,
                                     [start |-> src.start, duration |-> duration,
                                      rate |-> src.rate,
                                      late |-> ArrivesLate(w)]),
                 !.lastFlush = IF w.schedule = <<>> THEN w.lastFlush ELSE NoFlush]

\* The audio part of onmessage, for a chunk that decodes to `duration` ticks.
ScheduleBuffer(w, duration) ==
    StartBuffer([w EXCEPT !.nextStartTimeRef = CursorAtArrival(w)], duration)

\* The 'ended' listener: sourcesRef.current.delete(source).
SourceEnded(w, n) ==
    [w EXCEPT !.nodes = w.nodes \ {n}, !.sourcesRef = w.sourcesRef \ {n.start}]

\* ------------------------------------------------------------------------
\* Session life cycle
\* ------------------------------------------------------------------------
Attempts == 1..MaxAttempts

\* What one startConversation call owns: its position (pc), the microphone
\* stream of getUserMedia, the promise and the channel of liveConnect, the
\* script processor and the input AudioContext of onopen.  queuedSends are the
\* sends waiting for the promise; stopped and sentAfter record whether the
\* session was closed and the sendRealtimeInput calls made after that.
NoAttempt ==
    [pc |-> "unused", mic |-> "none", promise |-> "none", chan |-> "none",
     closeQueued |-> FALSE, proc |-> "none", ictx |-> "none",
     stopped |-> FALSE, sentAfter |-> 0, queuedSends |-> 0]

Flags(w) == [isActive |-> w.isActive, isConnecting |-> w.isConnecting]

\* session.close() on the session of attempt s.
CloseSession(w, s) ==
    IF w.att[s].chan = "open" THEN [w EXCEPT !.att[s].chan = "closing"] ELSE w

\* sessionPromiseRef.current?.then((s) => s.close())
RequestClose(w) ==
    LET s == w.sessionPromiseRef
    IN IF s = 0 THEN w
       ELSE IF w.att[s].promise = "resolved" THEN CloseSession(w, s)
       ELSE IF w.att[s].promise = "pending" THEN [w EXCEPT !.att[s].closeQueued = TRUE]
       ELSE w

\* streamRef tracks stopped, scriptProcessorRef disconnected, input context closed.
HaltCapture(w) ==
    LET w1 == IF w.streamRef = 0 THEN w
              ELSE [w EXCEPT !.att[w.streamRef].mic = "stopped"]
        w2 == IF w1.scriptProcessorRef = 0 THEN w1
              ELSE [w1 EXCEPT !.att[w1.scriptProcessorRef].proc = "disconnected"]
    IN IF w2.inputAudioContextRef = 0 THEN w2
       ELSE [w2 EXCEPT !.att[w2.inputAudioContextRef].ictx = "closed"]

\* The session that the client closes, or whose channel closed, is recorded
\* as stopped.
MarkStopped(w, s) == IF s = 0 THEN w ELSE [w EXCEPT !.att[s].stopped = TRUE]

stopConversation(w, shouldCloseSession) ==
    LET w1 == IF shouldCloseSession THEN RequestClose(w) ELSE w
        w2 == HaltCapture(w1)
        w3 == handleStopPlayback(w2)
        w4 == SetState(SetState(w3, "isActive", FALSE), "isConnecting", FALSE)
    IN MarkStopped(w4, IF shouldCloseSession THEN w.sessionPromiseRef ELSE 0)

\* useEffect(() => () => { if (isActive || isConnecting) stopConversation(); },
\* [isActive, isConnecting]): the cleanup sees the flags of the render that
\* installed it.
CleanupRuns(closure) == closure.isActive \/ closure.isConnecting

EffectCleanup(w, closure) ==
    IF CleanupRuns(closure) THEN stopConversation(w, TRUE) ELSE w

\* React renders with changed flags: the cleanup of the effect of the last
\* render runs, and the new render's effect is installed.
Commit(w) ==
    IF ~w.mounted \/ Flags(w) = w.committed THEN w
    ELSE EffectCleanup([w EXCEPT !.committed = Flags(w)], w.committed)

\* startConversation up to its first await.
startConversation(w, a) ==
    LET w1 == [w EXCEPT !.error = "none", !.transcript = <<>>, !.currentTurn = EmptyTurn,
                        !.isConnecting = TRUE, !.isPaused = FALSE,
                        !.playbackRate = DefaultRate,
                        !.att[a].pc = "getUserMedia",
                        !.starts = w.starts + 1]
    IN RateEffect(w1)

\* A catch block that sets the error and leaves the flags alone.
StartFailedKeepsFlags(w, a) ==
    [SetState(w, "error", "start") EXCEPT !.att[a].pc = "failed"]

\* catch (err): setError, setIsActive(false), setIsConnecting(false).
StartFailed(w, a) ==
    LET w1 == SetState(SetState(SetState(w, "error", "start"), "isActive", FALSE),
                       "isConnecting", FALSE)
    IN [w1 EXCEPT !.att[a].pc = "failed"]

\* getUserMedia rejects.
GumDenied(w, a) == StartFailed(w, a)

\* getUserMedia resolves and liveConnect returns the session promise.
GumGranted(w, a) ==
    [w EXCEPT !.att[a].mic = "live", !.streamRef = a,
              !.att[a].promise = "pending", !.att[a].chan = "connecting",
              !.sessionPromiseRef = a, !.att[a].pc = "awaitSession",
              !.connects = w.connects + 1]

\* getUserMedia resolves and liveConnect throws.
ConnectThrows(w, a) ==
    StartFailed([w EXCEPT !.att[a].mic = "live", !.streamRef = a,
                          !.connects = w.connects + 1], a)

\* The session promise rejects before the channel opened.
ConnectRejects(w, a) ==
    StartFailed([w EXCEPT !.att[a].promise = "rejected", !.att[a].chan = "closed"], a)

\* session.sendRealtimeInput on the session of attempt s, n calls.
SendFrames(w, s, n) ==
    IF w.att[s].stopped
    THEN [w EXCEPT !.att[s].sentAfter = w.att[s].sentAfter + n]
    ELSE w

\* onopen, then the promise resolves: startConversation returns and the
\* reactions queued on the promise run in the order they were queued.
onopen(w, a) ==
    LET w1 == SetState(SetState(w, "isConnecting", FALSE), "isActive", TRUE)
        w2 == [w1 EXCEPT !.att[a].chan = "open", !.att[a].promise = "resolved",
                         !.att[a].pc = "done",
                         !.att[a].ictx = "running", !.inputAudioContextRef = a,
                         !.att[a].proc = "connected", !.scriptProcessorRef = a]
        w3 == SendFrames([w2 EXCEPT !.att[a].queuedSends = 0], a, w.att[a].queuedSends)
    IN IF w.att[a].closeQueued
       THEN CloseSession([w3 EXCEPT !.att[a].closeQueued = FALSE], a)
       ELSE w3

\* onaudioprocess of the processor of attempt p:
\* sessionPromiseRef.current?.then(session => session.sendRealtimeInput(...))
onaudioprocess(w) ==
    LET s == w.sessionPromiseRef
    IN IF s = 0 THEN w
       ELSE IF w.att[s].promise = "resolved" THEN SendFrames(w, s, 1)
       ELSE IF w.att[s].promise = "pending"
            THEN [w EXCEPT !.att[s].queuedSends = w.att[s].queuedSends + 1]
       ELSE w

\* onerror: (e) => setError(`An error occurred: ...`)
onerror(w) == SetState(w, "error", "runtime")

\* onclose: () => stopConversation(false), the channel of attempt a being closed.
onclose(w, a) ==
    MarkStopped(stopConversation([w EXCEPT !.att[a].chan = "closed"], FALSE), a)

\* A handler that hands setTranscript the new entries in place of the list.
AggregateTextReplaces(w, msg) ==
    IF ~w.mounted THEN w
    ELSE [w EXCEPT !.currentTurn = NewTurn(w.currentTurn, msg),
                   !.transcript = IF TranscriptUpdates(w.currentTurn, msg) = <<>>
                                  THEN w.transcript
                                  ELSE TranscriptUpdates(w.currentTurn, msg),
                   !.lastDiscarded = DropsBlankUserText(w.currentTurn, msg)]

\* The text part of onmessage.
AggregateText(w, msg) ==
    IF ~w.mounted THEN w
    ELSE [w EXCEPT !.currentTurn = NewTurn(w.currentTurn, msg),
                   !.transcript = w.transcript \o TranscriptUpdates(w.currentTurn, msg),
                   !.lastDiscarded = DropsBlankUserText(w.currentTurn, msg)]

\* onmessage up to await decodeAudioData(...): the text, and for a message
\* with audio the cursor raised to the clock.
BeforeAwait(w, msg) ==
    LET w1 == AggregateText(w, msg)
    IN IF msg.audio = 0 THEN w1
       ELSE [w1 EXCEPT !.nextStartTimeRef = CursorAtArrival(w1)]

\* A continuation that handles interrupted before it starts the buffer.
AfterAwaitFlushFirst(w, msg) ==
    IF msg.audio # 0 /\ ~msg.audioValid THEN w
    ELSE LET w2 == IF msg.interrupted
                   THEN [handleStopPlayback(w) EXCEPT !.lastFlush.interrupted = TRUE]
                   ELSE w
         IN IF msg.audio = 0 THEN w2 ELSE StartBuffer(w2, msg.audio)

\* onmessage from the await on: a chunk that fails to decode ends the
\* handler, a decoded one is started, then interrupted is handled.
AfterAwait(w, msg) ==
    IF msg.audio # 0 /\ ~msg.audioValid THEN w
    ELSE LET w2 == IF msg.audio = 0 THEN w ELSE StartBuffer(w, msg.audio)
         IN IF msg.interrupted
            THEN [handleStopPlayback(w2) EXCEPT !.lastFlush.interrupted = TRUE]
            ELSE w2

\* The handler run from its call to its end: the await of decodeAudioData, an
\* async function without an await of its own, resumes in a microtask, before
\* the next event is dispatched.
onmessage(w, msg) == AfterAwait(BeforeAwait(w, msg), msg)

\* The arrival of msg as the task of the event loop runs it: a handler with
\* audio is left suspended in its await.
Arrive(w, msg) ==
    LET w1 == BeforeAwait(w, msg)
        w2 == [w1 EXCEPT !.arrived =
                 [audio |-> IF msg.audio # 0 /\ msg.audioValid
                            THEN Append(w.arrived.audio, msg.audio)
                            ELSE w.arrived.audio,
                  user |-> IF msg.hasInput /\ w.mounted
                           THEN w.arrived.user \o msg.inputText ELSE w.arrived.user,
                  model |-> IF msg.hasOutput /\ w.mounted
                            THEN w.arrived.model \o msg.outputText
                            ELSE w.arrived.model]]
    IN IF msg.audio = 0 THEN AfterAwait(w2, msg)
       ELSE [w2 EXCEPT !.awaiting = Append(w2.awaiting, msg)]

\* The microtask that resumes the oldest suspended handler; a flush it makes
\* is remembered as one made behind a decode.
Resume(w) ==
    LET msg == Head(w.awaiting)
        v == AfterAwait([w EXCEPT !.awaiting = Tail(w.awaiting)], msg)
    IN IF msg.interrupted /\ msg.audioValid
       THEN [v EXCEPT !.lastFlush.decoded = TRUE]
       ELSE v

\* ------------------------------------------------------------------------
\* State
\* ------------------------------------------------------------------------
VARIABLES
    mounted,               \* the panel is mounted (App renders it for the Live tab)
    isActive, isConnecting, error, transcript, currentTurn, playbackRate, isPaused,
    committed,             \* the flags of the last committed render
    att,                   \* what each startConversation call owns
    streamRef, sessionPromiseRef, scriptProcessorRef, inputAudioContextRef,
    ctxState, ctxOps,      \* the output AudioContext and its pending suspend/resume
    nodes,                 \* the sources alive in the output AudioContext
    sourcesRef, nextStartTimeRef, playbackRateRef,
    currentTime,           \* outputAudioContextRef.current.currentTime
    schedule,              \* the source.start calls since the last flush
    lastFlush,             \* the last flush, its time and the cursor before it,
                           \* kept until a second buffer is scheduled after it
    lastDiscarded,         \* the last message made the updater drop pending user
                           \* text that was white space only
    awaiting,              \* the messages whose handler is suspended in
                           \* await decodeAudioData, oldest first
    arrived,               \* as the messages arrived: the durations of the
                           \* decodable chunks since the last flush, and the
                           \* input and output fragments since the start
    starts, connects,      \* startConversation and liveConnect calls so far
    pcm,                   \* one sample on its way through encoder and decoder
    call,                  \* one invocation of withRetry
    video,                 \* the video panel: its state, ref, timers and calls
    game,                  \* the adventure game: gameState and the call in flight
    chat                   \* the chat panel: its state and the send in flight

worldVars ==
    <<mounted, isActive, isConnecting, error, transcript, currentTurn, playbackRate,
      isPaused, committed, att, streamRef, sessionPromiseRef, scriptProcessorRef,
      inputAudioContextRef, ctxState, ctxOps, nodes, sourcesRef, nextStartTimeRef,
      playbackRateRef, currentTime, schedule, lastFlush, lastDiscarded, awaiting,
      arrived, starts, connects>>

vars ==
    <<mounted, isActive, isConnecting, error, transcript, currentTurn, playbackRate,
      isPaused, committed, att, streamRef, sessionPromiseRef, scriptProcessorRef,
      inputAudioContextRef, ctxState, ctxOps, nodes, sourcesRef, nextStartTimeRef,
      playbackRateRef, currentTime, schedule, lastFlush, lastDiscarded, awaiting,
      arrived, starts, connects, pcm, call, video, game, chat>>

panelVars == <<video, game, chat>>

World ==
    [mounted |-> mounted, isActive |-> isActive, isConnecting |-> isConnecting,
     error |-> error, transcript |-> transcript, currentTurn |-> currentTurn,
     playbackRate |-> playbackRate, isPaused |-> isPaused, committed |-> committed,
     att |-> att, streamRef |-> streamRef, sessionPromiseRef |-> sessionPromiseRef,
     scriptProcessorRef |-> scriptProcessorRef,
     inputAudioContextRef |-> inputAudioContextRef,
     ctxState |-> ctxState, ctxOps |-> ctxOps, nodes |-> nodes,
     sourcesRef |-> sourcesRef, nextStartTimeRef |-> nextStartTimeRef,
     playbackRateRef |-> playbackRateRef, currentTime |-> currentTime,
     schedule |-> schedule, lastFlush |-> lastFlush,
     lastDiscarded |-> lastDiscarded, awaiting |-> awaiting, arrived |-> arrived,
     starts |-> starts, connects |-> connects]

RECURSIVE TextHeld(_)
TextHeld(entries) ==
    IF entries = <<>> THEN 0 ELSE Len(Head(entries).text) + TextHeld(Tail(entries))

\* The caps that keep the model finite.
Bounded(w) ==
    /\ Len(w.transcript) <= MaxTranscript
    /\ Len(w.currentTurn.user) + Len(w.currentTurn.model) + TextHeld(w.transcript)
          <= MaxTextLen
    /\ Len(w.currentTurn.modelSources) <= MaxCitations
    /\ Cardinality(w.nodes) <= MaxSources
    /\ Len(w.schedule) <= MaxSources
    /\ Len(w.ctxOps) <= MaxCtxOps
    /\ Len(w.arrived.user) + Len(w.arrived.model) <= MaxArrivedText
    /\ \A a \in Attempts :
          w.att[a].sentAfter + w.att[a].queuedSends <= MaxSent

Apply(w) ==
    /\ Bounded(w)
    /\ mounted' = w.mounted
    /\ isActive' = w.isActive
    /\ isConnecting' = w.isConnecting
    /\ error' = w.error
    /\ transcript' = w.transcript
    /\ currentTurn' = w.currentTurn
    /\ playbackRate' = w.playbackRate
    /\ isPaused' = w.isPaused
    /\ committed' = w.committed
    /\ att' = w.att
    /\ streamRef' = w.streamRef
    /\ sessionPromiseRef' = w.sessionPromiseRef
    /\ scriptProcessorRef' = w.scriptProcessorRef
    /\ inputAudioContextRef' = w.inputAudioContextRef
    /\ ctxState' = w.ctxState
    /\ ctxOps' = w.ctxOps
    /\ nodes' = w.nodes
    /\ sourcesRef' = w.sourcesRef
    /\ nextStartTimeRef' = w.nextStartTimeRef
    /\ playbackRateRef' = w.playbackRateRef
    /\ currentTime' = w.currentTime
    /\ schedule' = w.schedule
    /\ lastFlush' = w.lastFlush
    /\ lastDiscarded' = w.lastDiscarded
    /\ awaiting' = w.awaiting
    /\ arrived' = w.arrived
    /\ starts' = w.starts
    /\ connects' = w.connects
    /\ UNCHANGED <<pcm, call, panelVars>>

\* ------------------------------------------------------------------------
\* The video panel
\* ------------------------------------------------------------------------
\* Operations are numbered by the handleGenerate call that created them;
\* the interval timer of pollOperation(o) has the id o.
VideoOps == 1..MaxGenerations
NumLoadingMessages == 5
NoInterval == -1

\* A video URL is the operation it came from; 0 is null.
InitVideo ==
    [apiKeySelected |-> FALSE, isLoading |-> FALSE, loadingMessage |-> NoInterval,
     error |-> "none", videoUrl |-> 0,
     pollingInterval |-> 0,                      \* pollingInterval.current
     timers |-> {},                              \* the polling intervals alive
     checks |-> [o \in VideoOps |-> 0],          \* checkVideoOperation in flight
     generating |-> {},                          \* awaiting generateVideo
     messageIndex |-> [o \in VideoOps |-> NoInterval],
     generations |-> 0]

\* if (pollingInterval.current) clearInterval(pollingInterval.current)
ClearPollingInterval(v) ==
    IF v.pollingInterval # 0
    THEN [v EXCEPT !.timers = @ \ {v.pollingInterval}]
    ELSE v

\* handleGenerate up to await generateVideo, as call number g.
handleGenerate(v, g) ==
    [ClearPollingInterval(v) EXCEPT
        !.isLoading = TRUE, !.error = "none", !.videoUrl = 0,
        !.loadingMessage = 0, !.messageIndex[g] = 0,
        !.generating = @ \cup {g}, !.generations = g]

\* pollOperation(operation) and the finally block of handleGenerate.
pollOperation(v, o) ==
    [v EXCEPT !.pollingInterval = o, !.timers = @ \cup {o},
              !.generating = @ \ {o}, !.messageIndex[o] = NoInterval]

\* The catch and finally blocks of handleGenerate.
GenerateCaught(v, g, notFound) ==
    [v EXCEPT !.error = IF notFound THEN "api-key" ELSE "generation",
              !.apiKeySelected = IF notFound THEN FALSE ELSE @,
              !.isLoading = FALSE,
              !.generating = @ \ {g}, !.messageIndex[g] = NoInterval]

\* The interval callback after await checkVideoOperation(operation):
\* outcome is "pending", "done" (with a uri), "empty" (done, no uri) or
\* "failed" (the call threw).
CheckSettled(v, o, outcome) ==
    LET u == [v EXCEPT !.checks[o] = @ - 1] IN
    CASE outcome = "pending" -> u
      [] outcome = "done" ->
            [ClearPollingInterval(u) EXCEPT !.isLoading = FALSE, !.videoUrl = o]
      [] outcome = "empty" ->
            [ClearPollingInterval(u) EXCEPT !.isLoading = FALSE, !.error = "no-url"]
      [] OTHER ->
            [ClearPollingInterval(u) EXCEPT !.error = "polling", !.isLoading = FALSE]

VideoStep(v) ==
    /\ video' = v
    /\ UNCHANGED <<worldVars, pcm, call, game, chat>>

\* checkApiKey finds a key, or handleSelectKey.
SelectKey ==
    /\ ~video.apiKeySelected
    /\ VideoStep([video EXCEPT !.apiKeySelected = TRUE])

\* The Generate button: rendered with a key selected, disabled while loading.
ClickGenerate ==
    /\ video.apiKeySelected
    /\ ~video.isLoading
    /\ video.generations < MaxGenerations
    /\ \E prompt \in {<<" ">>, <<"c", "a", "r">>} :
          /\ Trim(prompt) # <<>>
          /\ VideoStep(handleGenerate(video, video.generations + 1))

GenerateVideoResolves ==
    \E g \in video.generating : VideoStep(pollOperation(video, g))

GenerateVideoThrows ==
    \E g \in video.generating, notFound \in BOOLEAN :
        VideoStep(GenerateCaught(video, g, notFound))

\* The 5 s interval of the loading messages fires.
LoadingMessageTick ==
    \E g \in VideoOps :
        /\ video.messageIndex[g] # NoInterval
        /\ LET i == (video.messageIndex[g] + 1) % NumLoadingMessages IN
           VideoStep([video EXCEPT !.messageIndex[g] = i, !.loadingMessage = i])

\* The 15 s interval fires and calls checkVideoOperation.
PollingTick ==
    \E o \in video.timers :
        /\ video.checks[o] < MaxChecks
        /\ VideoStep([video EXCEPT !.checks[o] = @ + 1])

CheckVideoOperationSettles ==
    \E o \in VideoOps, outcome \in {"pending", "done", "empty", "failed"} :
        /\ video.checks[o] > 0
        /\ VideoStep(CheckSettled(video, o, outcome))

NextVideo ==
    \/ SelectKey
    \/ ClickGenerate
    \/ GenerateVideoResolves
    \/ GenerateVideoThrows
    \/ LoadingMessageTick
    \/ PollingTick
    \/ CheckVideoOperationSettles

\* ------------------------------------------------------------------------
\* The adventure game
\* ------------------------------------------------------------------------
\* A story is the sequence of its pieces; '' is <<>>.  An image URL is the
\* prompt it was generated from; "" is null.
StoryResults ==
    {[storyContinuation |-> "cave", inventory |-> <<"sword", "potion">>,
      currentQuest |-> "artifact", choices |-> <<"enter", "wait", "leave">>,
      imagePrompt |-> "cave"],
     [storyContinuation |-> "troll", inventory |-> <<"sword">>,
      currentQuest |-> "escape", choices |-> <<"fight", "flee", "talk">>,
      imagePrompt |-> "troll"]}

NoStoryResult ==
    [storyContinuation |-> "", inventory |-> <<>>, currentQuest |-> "",
     choices |-> <<>>, imagePrompt |-> ""]

\* What the panel shows of gameState besides isLoading and error.
Shown(g) ==
    [story |-> g.story, inventory |-> g.inventory, quest |-> g.quest,
     imageUrl |-> g.imageUrl, choices |-> g.choices]

NothingShown ==
    [story |-> <<>>, inventory |-> <<>>, quest |-> "", imageUrl |-> "",
     choices |-> <<>>]

\* No startGame or handleChoice call in flight.  before is what the panel
\* showed when the call began.
NoGameCall ==
    [kind |-> "none", stage |-> "none", currentStory |-> <<>>, choice |-> "",
     newState |-> NoStoryResult, before |-> NothingShown]

\* useState(...) and the mount effect: startGame awaits continueStory.
InitGame ==
    [story |-> <<>>, inventory |-> <<>>, quest |-> "", imageUrl |-> "",
     choices |-> <<>>, isLoading |-> TRUE, error |-> "none", turns |-> 0,
     logged |-> "none",                          \* the last console.error
     call |-> [NoGameCall EXCEPT !.kind = "start", !.stage = "story"]]

\* handleChoice(choice) up to await continueStory.
handleChoice(g, choice) ==
    [g EXCEPT !.isLoading = TRUE, !.error = "none", !.choices = <<>>,
              !.story = @ \o <<"\n\n> ", choice>>,
              !.turns = @ + 1,
              !.call = [kind |-> "choice", stage |-> "story",
                        currentStory |-> g.story, choice |-> choice,
                        newState |-> NoStoryResult, before |-> Shown(g)]]

\* The story as startGame and handleChoice set it after both awaits.
StoryAfter(c) ==
    IF c.kind = "start"
    THEN <<c.newState.storyContinuation>>
    ELSE c.currentStory \o <<"\n\n> ", c.choice, "\n\n">>
            \o <<c.newState.storyContinuation>>

\* setGameState({...}) after await generateStoryImage.
GameCallDone(g, imageUrl) ==
    [g EXCEPT !.story = StoryAfter(g.call),
              !.inventory = g.call.newState.inventory,
              !.quest = g.call.newState.currentQuest,
              !.imageUrl = imageUrl,
              !.choices = g.call.newState.choices,
              !.isLoading = FALSE, !.error = "none",
              !.call = NoGameCall]

\* The catch blocks of startGame and handleChoice; thrown is the call that
\* threw.
GameCallCaught(g, thrown) ==
    [g EXCEPT !.isLoading = FALSE, !.logged = thrown,
              !.error = IF g.call.kind = "start" THEN "start-failed" ELSE "snag",
              !.call = NoGameCall]

GameStep(g) ==
    /\ game' = g
    /\ UNCHANGED <<worldVars, pcm, call, video, chat>>

\* A choice button: rendered for each of choices, disabled while loading.
ClickChoice ==
    /\ ~game.isLoading
    /\ game.turns < MaxTurns
    /\ \E i \in 1..Len(game.choices) :
          GameStep(handleChoice(game, game.choices[i]))

ContinueStoryResolves ==
    /\ game.call.stage = "story"
    /\ \E r \in StoryResults :
          GameStep([game EXCEPT !.call.stage = "image", !.call.newState = r])

ContinueStoryThrows ==
    /\ game.call.stage = "story"
    /\ GameStep(GameCallCaught(game, "continueStory"))

GenerateStoryImageResolves ==
    /\ game.call.stage = "image"
    /\ GameStep(GameCallDone(game, game.call.newState.imagePrompt))

GenerateStoryImageThrows ==
    /\ game.call.stage = "image"
    /\ GameStep(GameCallCaught(game, "generateStoryImage"))

NextGame ==
    \/ ClickChoice
    \/ ContinueStoryResolves
    \/ ContinueStoryThrows
    \/ GenerateStoryImageResolves
    \/ GenerateStoryImageThrows

\* ------------------------------------------------------------------------
\* The chat panel
\* ------------------------------------------------------------------------
\* Texts are sequences of characters (the input) or of chunks (an answer).
ChatInputs == {<<" ">>, <<"h", "i">>}
ChunkTexts == {<<"o">>, <<"k">>}
ChunkSources == {<<>>, <<"web">>}

Greeting(useGrounding) ==
    [role |-> "model",
     text |-> IF useGrounding THEN <<"Hello! Web search is enabled.">>
                              ELSE <<"Hello!">>,
     sources |-> <<>>]

\* { role: 'model', text: '', sources: [] }
Placeholder == [role |-> "model", text |-> <<>>, sources |-> <<>>]

NoSend == [stage |-> "none", modelResponse |-> <<>>, sources |-> <<>>, chunks |-> 0]

\* prev.slice(0, -1)
DropLast(msgs) == IF msgs = <<>> THEN <<>> ELSE SubSeq(msgs, 1, Len(msgs) - 1)

\* useState(...) and the mount effect initializeChat.
InitChat ==
    [messages |-> <<Greeting(FALSE)>>, input |-> <<>>, isLoading |-> FALSE,
     error |-> "none", useGrounding |-> FALSE, send |-> NoSend,
     sends |-> 0,                                \* handleSend calls so far
     startChats |-> 1]                           \* startChat calls so far

\* handleSend up to await sendMessageToChat.
handleSend(c) ==
    [c EXCEPT !.messages = @ \o <<[role |-> "user", text |-> c.input,
                                   sources |-> <<>>], Placeholder>>,
              !.input = <<>>, !.isLoading = TRUE, !.error = "none",
              !.send = [NoSend EXCEPT !.stage = "opening"],
              !.sends = @ + 1]

\* One turn of for await (const chunk of stream).
ChunkReceived(c, text, newSources) ==
    LET modelResponse == c.send.modelResponse \o text
        sources == c.send.sources \o newSources
    IN  [c EXCEPT !.send.modelResponse = modelResponse,
                  !.send.sources = sources,
                  !.send.chunks = @ + 1,
                  !.messages = IF @ = <<>> THEN @
                               ELSE [@ EXCEPT ![Len(@)] =
                                       [role |-> "model", text |-> modelResponse,
                                        sources |-> sources]]]

\* The catch and finally blocks of handleSend.
SendCaught(c) ==
    [c EXCEPT !.error = "failed", !.messages = DropLast(@),
              !.isLoading = FALSE, !.send = NoSend]

\* The toggle and the effect it triggers: initializeChat.
initializeChat(c) ==
    [c EXCEPT !.useGrounding = ~@,
              !.messages = <<Greeting(~c.useGrounding)>>,
              !.startChats = @ + 1]

ChatStep(c) ==
    /\ chat' = c
    /\ UNCHANGED <<worldVars, pcm, call, video, game>>

\* The input field, disabled while loading.
TypeInput ==
    /\ ~chat.isLoading
    /\ \E text \in ChatInputs :
          /\ text # chat.input
          /\ ChatStep([chat EXCEPT !.input = text])

\* The Send button or the Enter key.
ClickSend ==
    /\ Trim(chat.input) # <<>>
    /\ ~chat.isLoading
    /\ chat.sends < MaxSends
    /\ ChatStep(handleSend(chat))

SendMessageToChatResolves ==
    /\ chat.send.stage = "opening"
    /\ ChatStep([chat EXCEPT !.send.stage = "streaming"])

\* sendMessageToChat rejects, or the stream throws.
SendThrows ==
    /\ chat.send.stage \in {"opening", "streaming"}
    /\ ChatStep(SendCaught(chat))

StreamChunk ==
    /\ chat.send.stage = "streaming"
    /\ chat.send.chunks < MaxChunks
    /\ \E text \in ChunkTexts, newSources \in ChunkSources :
          ChatStep(ChunkReceived(chat, text, newSources))

\* The stream is exhausted: the finally block.
StreamEnds ==
    /\ chat.send.stage = "streaming"
    /\ ChatStep([chat EXCEPT !.isLoading = FALSE, !.send = NoSend])

\* The Web Search toggle.
ToggleGrounding ==
    /\ chat.startChats <= MaxToggles
    /\ ChatStep(initializeChat(chat))

NextChat ==
    \/ TypeInput
    \/ ClickSend
    \/ SendMessageToChatResolves
    \/ SendThrows
    \/ StreamChunk
    \/ StreamEnds
    \/ ToggleGrounding


InitPanels ==
    /\ video = InitVideo
    /\ game = InitGame
    /\ chat = InitChat

NoSample == [stage |-> "idle", num |-> 0, bytes |-> <<0, 0>>, out |-> 0]

InitWorld ==
    /\ mounted = TRUE
    /\ isActive = FALSE
    /\ isConnecting = FALSE
    /\ error = "none"
    /\ transcript = <<>>
    /\ currentTurn = EmptyTurn
    /\ playbackRate = DefaultRate
    /\ isPaused = FALSE
    /\ committed = [isActive |-> FALSE, isConnecting |-> FALSE]
    /\ att = [a \in Attempts |-> NoAttempt]
    /\ streamRef = 0
    /\ sessionPromiseRef = 0
    /\ scriptProcessorRef = 0
    /\ inputAudioContextRef = 0
    /\ ctxState = "running"
    /\ ctxOps = <<>>
    /\ nodes = {}
    /\ sourcesRef = {}
    /\ nextStartTimeRef = 0
    /\ playbackRateRef = DefaultRate
    /\ currentTime = 0
    /\ schedule = <<>>
    /\ lastFlush = NoFlush
    /\ lastDiscarded = FALSE
    /\ awaiting = <<>>
    /\ arrived = NothingArrived
    /\ starts = 0
    /\ connects = 0

\* withRetry before it is invoked.
NoCall ==
    [pc |-> "idle", maxRetries |-> 0, retries |-> 0, attempts |-> 0,
     error |-> NoError, thrown |-> NoError, delay |-> 0, waits |-> 0, result |-> 0]

Init == InitWorld /\ InitPanels /\ pcm = NoSample /\ call = NoCall

\* ------------------------------------------------------------------------
\* Messages of the channel
\* ------------------------------------------------------------------------
NoMessage ==
    [hasInput |-> FALSE, inputText |-> <<>>, hasOutput |-> FALSE, outputText |-> <<>>,
     turnComplete |-> FALSE, newSources |-> <<>>, audio |-> 0, audioValid |-> TRUE,
     interrupted |-> FALSE]

Fragments ==
    { <<>>, <<" ">>, <<"h","i">>, <<"h","e","y">>, <<"d","a","r","n">> }

\* The fragments of a message that carries input and output text at once.
ShortFragments == { <<" ">>, <<"h","i">> }

InputOf(m, f) == [m EXCEPT !.hasInput = TRUE, !.inputText = f]
OutputOf(m, f) == [m EXCEPT !.hasOutput = TRUE, !.outputText = f]

TextMessages ==
    LET plain == {NoMessage, [NoMessage EXCEPT !.turnComplete = TRUE],
                  [NoMessage EXCEPT !.newSources = <<"src">>]}
        inOnly == {InputOf(m, f) : m \in plain, f \in Fragments}
        outOnly == {OutputOf(m, f) : m \in plain, f \in Fragments}
        both == {OutputOf(InputOf(m, f), g) :
                    m \in plain, f \in ShortFragments, g \in ShortFragments}
    IN plain \cup inOnly \cup outOnly \cup both

AudioMessages ==
    {[NoMessage EXCEPT !.audio = d, !.audioValid = v, !.interrupted = i] :
        d \in Durations \cup {0}, v \in BOOLEAN, i \in BOOLEAN}

SessionMessages ==
    { [NoMessage EXCEPT !.audio = 2], [NoMessage EXCEPT !.interrupted = TRUE] }

\* Messages with a chunk, interrupted or both: the handlers of those with a
\* chunk are suspended in the await.
DecodeMessages ==
    {[NoMessage EXCEPT !.audio = d, !.audioValid = TRUE, !.interrupted = i] :
        d \in {2, 4}, i \in BOOLEAN}
    \cup {[NoMessage EXCEPT !.audio = 2, !.audioValid = FALSE, !.interrupted = i] :
            i \in BOOLEAN}
    \cup {[NoMessage EXCEPT !.interrupted = TRUE]}

\* Messages of a stretch without interruption: chunks, fragments of text
\* with or without a chunk, and turn-complete.
OrderMessages ==
    {[NoMessage EXCEPT !.audio = d] : d \in {2, 4}}
    \cup {[NoMessage EXCEPT !.audio = 2, !.audioValid = FALSE]}
    \cup {[m EXCEPT !.audio = d] :
            m \in {InputOf(NoMessage, <<"h">>), InputOf(NoMessage, <<"y">>),
                   OutputOf(NoMessage, <<"o">>), OutputOf(NoMessage, <<"k">>)},
            d \in {0, 2}}
    \cup {[NoMessage EXCEPT !.turnComplete = TRUE]}

\* ------------------------------------------------------------------------
\* Actions
\* ------------------------------------------------------------------------
\* The Start button, shown enabled while the rendered flags are both false.
ClickStart ==
    /\ mounted /\ ~committed.isActive /\ ~committed.isConnecting
    /\ starts < MaxAttempts
    /\ Apply(Commit(startConversation(World, starts + 1)))

\* The End Conversation button, shown while the rendered isActive is true.
ClickEnd ==
    /\ mounted /\ committed.isActive /\ ~committed.isConnecting
    /\ Apply(Commit(stopConversation(World, TRUE)))

\* The playback controls are rendered while isActive is true.
ClickPauseResume ==
    /\ mounted /\ committed.isActive
    /\ Apply(handlePauseResume(World))

ClickStop ==
    /\ mounted /\ committed.isActive
    /\ Apply(handleStopPlayback(World))

ChangeRate ==
    /\ mounted /\ committed.isActive
    /\ \E r \in Rates \ {playbackRate} :
          Apply(RateEffect([World EXCEPT !.playbackRate = r]))

\* React renders after a callback that is no user event changed the flags.
Render ==
    /\ mounted /\ Flags(World) # committed
    /\ Apply(Commit(World))

\* The user leaves the Live tab: the effect cleanup runs a last time.
Unmount ==
    /\ mounted
    /\ Apply(EffectCleanup([World EXCEPT !.mounted = FALSE], committed))

GetUserMediaDenied ==
    \E a \in Attempts :
        /\ att[a].pc = "getUserMedia"
        /\ Apply(GumDenied(World, a))

GetUserMediaGranted ==
    \E a \in Attempts :
        /\ att[a].pc = "getUserMedia"
        /\ Apply(GumGranted(World, a))

LiveConnectThrows ==
    \E a \in Attempts :
        /\ att[a].pc = "getUserMedia"
        /\ Apply(ConnectThrows(World, a))

LiveConnectRejects ==
    \E a \in Attempts :
        /\ att[a].pc = "awaitSession" /\ att[a].promise = "pending"
        /\ att[a].chan = "connecting"
        /\ Apply(ConnectRejects(World, a))

OnOpen ==
    \E a \in Attempts :
        /\ att[a].chan = "connecting" /\ att[a].promise = "pending"
        /\ Apply(onopen(World, a))

OnMessage(msgs) ==
    \E a \in Attempts, msg \in msgs :
        /\ att[a].chan \in {"open", "closing"}
        /\ Apply(onmessage(World, msg))

OnError ==
    \E a \in Attempts :
        /\ att[a].chan \in {"connecting", "open", "closing"}
        /\ Apply(onerror(World))

OnClose ==
    \E a \in Attempts :
        /\ att[a].chan \in {"connecting", "open", "closing"}
        /\ Apply(onclose(World, a))

OnAudioProcess ==
    \E p \in Attempts :
        /\ att[p].proc = "connected" /\ att[p].ictx = "running"
        /\ Apply(onaudioprocess(World))

\* The output clock advances while the context runs.
Tick ==
    /\ ctxState = "running" /\ currentTime < MaxClock
    /\ Apply([World EXCEPT !.currentTime = currentTime + 1])

\* A source has played to its end, which it cannot have before its buffer
\* was played at the highest rate.
OnEnded ==
    \E n \in nodes :
        /\ ctxState = "running"
        /\ currentTime >= n.start + Advance(n.duration, MaxRate)
        /\ Apply(SourceEnded(World, n))

CtxOpSettles ==
    /\ ctxOps # <<>>
    /\ Apply(SettleCtxOp(World))

\* A message event is dispatched: the handler runs up to its await.
MessageArrives(messages) ==
    \E a \in Attempts, msg \in messages :
        /\ att[a].chan \in {"open", "closing"}
        /\ Apply(Arrive(World, msg))

\* The microtask that resumes a handler suspended in its await.
DecodeSettles ==
    /\ awaiting # <<>>
    /\ Apply(Resume(World))

\* A session from the Start button to its open channel.
Opening ==
    \/ ClickStart
    \/ GetUserMediaGranted
    \/ OnOpen

\* How a session ends, and what React does about the flags.
Closing ==
    \/ ClickEnd
    \/ Render
    \/ OnClose

\* What can go wrong with a session, and the capture callback.
Failures ==
    \/ Unmount
    \/ GetUserMediaDenied
    \/ LiveConnectThrows
    \/ LiveConnectRejects
    \/ OnError
    \/ OnAudioProcess

\* The playback controls and the output AudioContext.
Controls ==
    \/ ClickPauseResume
    \/ ClickStop
    \/ CtxOpSettles
    \/ OnEnded

\* The life cycle of sessions: every way one starts, fails and ends.
NextSession ==
    \/ Opening
    \/ Closing
    \/ Failures
    \/ OnMessage(SessionMessages)
    \/ ClickStop

\* The turn aggregator: the text of the messages of an open session.  The
\* actions left out write neither currentTurn nor transcript.
NextText ==
    \/ Opening
    \/ OnMessage(TextMessages)

\* The playback scheduler in the first session of the panel: the audio of the
\* messages, the clock and the speed control.  Render is what shows the controls.
NextAudio ==
    \/ (starts = 0 /\ ClickStart)
    \/ GetUserMediaGranted
    \/ OnOpen
    \/ Render
    \/ OnMessage(AudioMessages)
    \/ Tick
    \/ ChangeRate
    \/ ClickStop

\* The message handler with its await.  The event loop runs the microtasks
\* before it dispatches the next event, so every other handler waits for the
\* suspended one to resume.
NextDecode ==
    \/ DecodeSettles
    \/ /\ awaiting = <<>>
       /\ \/ (starts = 0 /\ ClickStart)
          \/ GetUserMediaGranted
          \/ OnOpen
          \/ Render
          \/ MessageArrives(DecodeMessages)
          \/ Tick
          \/ ClickStop

\* The same handler over a stretch of messages with text and no
\* interruption: what arrives, in which order, and what is made of it.
NextOrder ==
    \/ DecodeSettles
    \/ /\ awaiting = <<>>
       /\ \/ (starts = 0 /\ ClickStart)
          \/ GetUserMediaGranted
          \/ OnOpen
          \/ Render
          \/ MessageArrives(OrderMessages)
          \/ Tick

\* Chunks that are played, paused and resumed.
PauseMessages == {[NoMessage EXCEPT !.audio = d] : d \in {2, 4}}

\* Pause/Resume in the first session of the panel: chunks arrive, the clock
\* runs while the context does, sources end, the user pauses and resumes.
NextPause ==
    \/ (starts = 0 /\ ClickStart)
    \/ GetUserMediaGranted
    \/ OnOpen
    \/ Render
    \/ OnMessage(PauseMessages)
    \/ Tick
    \/ OnEnded
    \/ ClickPauseResume
    \/ CtxOpSettles

\* One sample through the capture callback and back through decodeAudioData.
InitPcm ==
    /\ InitWorld
    /\ InitPanels
    /\ pcm \in {[NoSample EXCEPT !.stage = "captured", !.num = n] :
                   n \in -SampleDen..SampleDen}
    /\ call = NoCall

EncodeFrame ==
    /\ pcm.stage = "captured"
    /\ pcm' = [pcm EXCEPT !.stage = "encoded",
                          !.bytes = ToBytes(EncodeSample(pcm.num, SampleDen))]
    /\ UNCHANGED <<worldVars, call, panelVars>>

DecodeFrame ==
    /\ pcm.stage = "encoded"
    /\ pcm' = [pcm EXCEPT !.stage = "decoded", !.out = DecodeSample(pcm.bytes)]
    /\ UNCHANGED <<worldVars, call, panelVars>>

NextPcm ==
    \/ EncodeFrame
    \/ DecodeFrame

\* withRetry invoked with maxRetries = m: the loop, about to call apiCall.
InitRetry ==
    /\ InitWorld
    /\ InitPanels
    /\ pcm = NoSample
    /\ call \in {[NoCall EXCEPT !.pc = "calling", !.maxRetries = m] :
                    m \in 0..MaxRetriesTried}

\* return await apiCall(): the promise of apiCall fulfils.
ApiCallReturns ==
    /\ call.pc = "calling"
    /\ call' = Returned(call)
    /\ UNCHANGED <<worldVars, pcm, panelVars>>

\* The promise of apiCall rejects with e, or apiCall throws e: the catch block.
ApiCallThrows ==
    /\ call.pc = "calling"
    /\ \E e \in Errors, jitter \in Jitters :
          call' = Caught(call, e, jitter)
    /\ UNCHANGED <<worldVars, pcm, panelVars>>

\* The setTimeout of the backoff fires and the loop calls apiCall again.
BackoffElapses ==
    /\ call.pc = "waiting"
    /\ call' = [call EXCEPT !.pc = "calling"]
    /\ UNCHANGED <<worldVars, pcm, panelVars>>

NextRetry ==
    \/ ApiCallReturns
    \/ ApiCallThrows
    \/ BackoffElapses

Spec == Init /\ [][NextSession]_vars
SpecText == Init /\ [][NextText]_vars
SpecAudio == Init /\ [][NextAudio]_vars
SpecPcm == InitPcm /\ [][NextPcm]_vars
SpecDecode == Init /\ [][NextDecode]_vars
SpecOrder == Init /\ [][NextOrder]_vars
SpecPause == Init /\ [][NextPause]_vars
SpecVideo == Init /\ [][NextVideo]_vars
SpecGame == Init /\ [][NextGame]_vars
SpecChat == Init /\ [][NextChat]_vars
\* apiCall settles and the timer of setTimeout fires.
SpecRetry == InitRetry /\ [][NextRetry]_vars /\ WF_vars(NextRetry)

\* ------------------------------------------------------------------------
\* C2 - C4: the turn aggregator
\* ------------------------------------------------------------------------
TurnCompleteOnly == [NoMessage EXCEPT !.turnComplete = TRUE]

\* The entries a message adds to the transcript.
Added(msg) ==
    SubSeq(onmessage(World, msg).transcript, Len(transcript) + 1,
           Len(onmessage(World, msg).transcript))

\* a is b with some of its characters masked by filterProfanity.
SameUpToMask(a, b) ==
    /\ Len(a) = Len(b)
    /\ \A i \in 1..Len(a) : a[i] = b[i] \/ a[i] = "*"

\* C2.  Every entry of the transcript, of the user or of the model, has text
\* that is not empty after trimming.
C2_NoBlankEntry ==
    \A i \in 1..Len(transcript) : Trim(transcript[i].text) # <<>>

\* C3.  A message with turn-complete appends the pending user text (with the
\* message's own fragment, trimmed, dropped if nothing is left) as a user
\* entry, after it the pending model text with the accumulated citations as a
\* model entry, and leaves the pending turn empty; pending user text followed
\* by an output fragment and turn-complete adds exactly a user entry and then
\* a model entry.
C3_TurnCompleteFinalizes ==
    mounted =>
        /\ \A msg \in {m \in TextMessages : m.turnComplete} :
              LET after == onmessage(World, msg)
                  added == Added(msg)
                  modelText == currentTurn.model \o msg.outputText
              IN /\ after.currentTurn = EmptyTurn
                 /\ SubSeq(after.transcript, 1, Len(transcript)) = transcript
                 /\ \A i \in 1..Len(added) :
                        added[i].speaker = "model" => i = Len(added)
                 /\ IF modelText = <<>>
                    THEN \A i \in 1..Len(added) : added[i].speaker = "user"
                    ELSE /\ added # <<>>
                         /\ added[Len(added)] =
                               ModelEntry(modelText,
                                          currentTurn.modelSources \o msg.newSources)
        /\ LET added == Added(TurnCompleteOnly)
               users == SelectSeq(added, LAMBDA e : e.speaker = "user")
           IN IF Trim(currentTurn.user) = <<>>
              THEN users = <<>>
              ELSE /\ Len(users) = 1
                   /\ added[1] = users[1]
                   /\ SameUpToMask(users[1].text, Trim(currentTurn.user))
        /\ (Trim(currentTurn.user) # <<>> /\ currentTurn.model = <<>>) =>
              \A g \in Fragments \ {<<>>} :
                 LET heard == onmessage(World, OutputOf(NoMessage, g))
                     done == onmessage(heard, TurnCompleteOnly)
                     added == SubSeq(done.transcript, Len(transcript) + 1,
                                     Len(done.transcript))
                 IN /\ Len(added) = 2
                    /\ added[1].speaker = "user"
                    /\ SameUpToMask(added[1].text, Trim(currentTurn.user))
                    /\ added[2] = ModelEntry(g, currentTurn.modelSources)
                    /\ done.currentTurn = EmptyTurn

\* Input "hi", output "hey", turn-complete: the transcript is the user's turn
\* and then the model's, and nothing is pending.
C3_Witness ==
    /\ transcript = <<UserEntry(<<"h","i">>), ModelEntry(<<"h","e","y">>, <<>>)>>
    /\ currentTurn = EmptyTurn

\* C4.  Pending user text that is white space only is never recorded: a
\* turn-complete, or an output fragment (the speaker switch), adds no user
\* entry and clears the pending user text.
C4_BlankUserTextDropped ==
    (mounted /\ currentTurn.user # <<>> /\ Trim(currentTurn.user) = <<>>) =>
        /\ \A e \in Range(Added(TurnCompleteOnly)) : e.speaker # "user"
        /\ onmessage(World, TurnCompleteOnly).currentTurn.user = <<>>
        /\ \A g \in Fragments :
              /\ Added(OutputOf(NoMessage, g)) = <<>>
              /\ onmessage(World, OutputOf(NoMessage, g)).currentTurn.user = <<>>

\* White space was pending, the last message dropped it, and the transcript
\* holds nothing.
C4_Witness ==
    /\ lastDiscarded
    /\ transcript = <<>>
    /\ currentTurn.user = <<>>

\* ------------------------------------------------------------------------
\* C1, C5, C6: the playback scheduler.  schedule is the list of the calls of
\* source.start since the last flush.
\* ------------------------------------------------------------------------
RECURSIVE DurationsBefore(_, _)
DurationsBefore(s, k) ==
    IF k <= 1 THEN 0 ELSE s[k - 1].duration + DurationsBefore(s, k - 1)

\* C1.  At every rate of the speed control the start times are non-decreasing
\* and every buffer's start + duration is at most the next buffer's start.
C1_EndBeforeNextStart ==
    \A i \in 1..(Len(schedule) - 1) :
        /\ schedule[i].start <= schedule[i + 1].start
        /\ schedule[i].start + schedule[i].duration <= schedule[i + 1].start

C6_Gapless ==
    \A k \in 2..Len(schedule) :
        (\A j \in 1..k : (j > 1 => ~schedule[j].late) /\ schedule[j].rate = DefaultRate)
            => schedule[k].start = schedule[1].start + DurationsBefore(schedule, k)

\* Buffers of 1.0 s, 0.5 s and 2.0 s (4, 2 and 8 quarter seconds) arrive at
\* clock t = 1 and start at t, t + 1.0 s and t + 1.5 s.
C6_Witness ==
    /\ Len(schedule) = 3
    /\ currentTime = 1
    /\ [i \in 1..3 |-> schedule[i].duration] = <<4, 2, 8>>
    /\ [i \in 1..3 |-> schedule[i].start] = <<1, 5, 7>>
    /\ \A i \in 1..3 : schedule[i].rate = DefaultRate

\* ------------------------------------------------------------------------
\* C7: a sample in [-1, 1] survives encoder and decoder within 1/32768
\* ------------------------------------------------------------------------
Abs(x) == IF x >= 0 THEN x ELSE -x

\* C7.  Every sample num / SampleDen of [-1, 1], both endpoints included,
\* comes back from the decoder as out / 32768 with
\* |out / 32768 - num / SampleDen| <= 1 / 32768.
C7_RoundTripWithinOneStep ==
    pcm.stage = "decoded" =>
        Abs(pcm.out * SampleDen - pcm.num * 32768) <= SampleDen

\* ------------------------------------------------------------------------
\* C8 - C10: how a session ends
\* ------------------------------------------------------------------------
\* C8.  Once a session was closed, by stopConversation or by onclose, its
\* microphone is not live, its capture processor is not connected, no source
\* is scheduled or playing, and sendRealtimeInput is not called for it again.
C8_ClosedSessionIsQuiet ==
    \A a \in Attempts :
        att[a].stopped =>
            /\ att[a].mic # "live"
            /\ att[a].proc # "connected"
            /\ sourcesRef = {}
            /\ att[a].sentAfter = 0

\* C9.  Once onerror has set its message the session is torn down: neither
\* active nor connecting, no microphone live, no capture processor connected,
\* no source scheduled or playing.
C9_ErrorTearsDown ==
    error = "runtime" =>
        /\ ~isActive /\ ~isConnecting
        /\ \A a \in Attempts : att[a].mic # "live" /\ att[a].proc # "connected"
        /\ sourcesRef = {}

\* An attempt of startConversation takes the catch block in this step.
Fails(a) == att[a].pc # "failed" /\ att'[a].pc = "failed"

\* C10.  When getUserMedia rejects, liveConnect throws or the session promise
\* rejects, the panel is left neither active nor connecting with the message
\* of the failure; liveConnect is called at most once per start, only by an
\* attempt that has not failed, and a failed attempt stays failed: its channel
\* and its promise do not change, and nothing connects until the next start.
C10_StartFailureIsFinal ==
    /\ [][/\ \A a \in Attempts :
              /\ (Fails(a) /\ mounted') =>
                    (~isActive' /\ ~isConnecting' /\ error' = "start")
              /\ att[a].pc = "failed" =>
                    /\ att'[a].pc = "failed"
                    /\ att'[a].chan = att[a].chan
                    /\ att'[a].promise = att[a].promise
          /\ connects' # connects =>
                /\ connects' = connects + 1
                /\ \E a \in Attempts :
                      att[a].pc = "getUserMedia" /\ att'[a].pc # "getUserMedia"]_vars
    /\ [](connects <= starts)

\* The session promise of a start rejected: the error is shown, the flags are
\* false and liveConnect was called once.
C10_Witness ==
    /\ mounted
    /\ \E a \in Attempts : att[a].pc = "failed" /\ att[a].promise = "rejected"
    /\ error = "start" /\ ~isActive /\ ~isConnecting
    /\ connects = 1

\* ------------------------------------------------------------------------
\* C11: a chunk that fails to decode
\* ------------------------------------------------------------------------
UndecodableMessages == {m \in AudioMessages : m.audio # 0 /\ ~m.audioValid}

\* C11.  A message whose audio chunk fails to decode leaves the session as
\* the same message without the chunk would: nothing is scheduled for the
\* chunk, isActive is kept, an interrupted event of the message flushes, and
\* the next chunk is scheduled where it would have been.
C11_DecodeFailureConfined ==
    mounted =>
        \A msg \in UndecodableMessages :
            LET bad == onmessage(World, msg)
                without == onmessage(World, [msg EXCEPT !.audio = 0])
            IN /\ bad.schedule = without.schedule
               /\ bad.sourcesRef = without.sourcesRef
               /\ bad.nodes = without.nodes
               /\ bad.isActive = isActive
               /\ \A d \in Durations :
                     LET next == [NoMessage EXCEPT !.audio = d, !.audioValid = TRUE]
                     IN onmessage(bad, next).schedule = onmessage(without, next).schedule

\* ------------------------------------------------------------------------
\* C12 - C14: withRetry
\* ------------------------------------------------------------------------
Settled == call.pc \in {"returned", "thrown"}

\* C12.  withRetry settles; it calls apiCall at most maxRetries + 1 times;
\* it returns the result of the first attempt that succeeds and calls no
\* more; when the last failure is one it retries, it has made exactly
\* maxRetries + 1 attempts and throws that failure.
C12_RetryTerminates ==
    /\ [](call.attempts <= call.maxRetries + 1)
    /\ [](call.pc = "returned" =>
            (call.result = call.attempts /\ call.attempts = call.retries + 1))
    /\ []((call.pc = "thrown" /\ isRetryable(call.error)) =>
            (call.attempts = call.maxRetries + 1 /\ call.thrown = call.error))
    /\ [][Settled => call' = call]_vars
    /\ <>Settled

\* With the default of three retries a fourth retryable failure is thrown.
C12_Witness ==
    /\ call.pc = "thrown"
    /\ call.maxRetries = DefaultMaxRetries
    /\ call.attempts = 4
    /\ isRetryable(call.error)
    /\ call.thrown = call.error

\* C13.  When apiCall fails with an error that withRetry does not classify
\* as retryable, that very error is thrown in the same step: no backoff is
\* waited, no retry is counted, and apiCall is never called again, however
\* many retries remain.
C13_NonRetryablePropagates ==
    /\ [][(call.pc = "calling" /\ call'.pc # "returned"
              /\ ~isRetryable(call'.error)) =>
            /\ call'.pc = "thrown"
            /\ call'.thrown = call'.error
            /\ call'.attempts = call.attempts + 1
            /\ call'.waits = call.waits
            /\ call'.delay = call.delay
            /\ call'.retries = call.retries]_vars
    /\ [][call.pc = "thrown" => call' = call]_vars

\* A 404 after one retry, with two retries left, is thrown at once.
C13_Witness ==
    /\ call.pc = "thrown"
    /\ call.thrown = [status |-> 404, text |-> <<"4","0","4">>]
    /\ call.maxRetries = DefaultMaxRetries
    /\ call.retries = 1
    /\ call.attempts = 2
    /\ call.waits = 1

\* The failures the retry is meant for: rate limit and server errors.
Transient(e) == e.status = 429 \/ e.status \in 500..599

\* C14.  withRetry retries exactly the failures of status 429 or 5xx: it
\* waits for a retry only after one of them, and while retries remain it
\* throws only a failure of another status.
C14_RetriesExactly429And5xx ==
    /\ call.pc = "waiting" => Transient(call.error)
    /\ (call.pc = "thrown" /\ call.retries < call.maxRetries) =>
          ~Transient(call.thrown)

\* ------------------------------------------------------------------------
\* C15: arrival order across the await
\* ------------------------------------------------------------------------
RECURSIVE Spoken(_, _)
\* The texts of the entries of one speaker, joined in transcript order.
Spoken(speaker, entries) ==
    IF entries = <<>> THEN <<>>
    ELSE (IF Head(entries).speaker = speaker THEN Head(entries).text ELSE <<>>)
         \o Spoken(speaker, Tail(entries))

\* C15.  The events of a session are handled in arrival order although the
\* handler is suspended while a chunk decodes: the buffers started since the
\* last flush are, in order, the chunks that arrived since then (all of them
\* once no handler is suspended), their start times never decrease, and the
\* text of each speaker in the transcript followed by the pending text is
\* the fragments in the order of their arrival.
C15_ArrivalOrder ==
    /\ Len(schedule) <= Len(arrived.audio)
    /\ \A i \in 1..Len(schedule) : schedule[i].duration = arrived.audio[i]
    /\ awaiting = <<>> => Len(schedule) = Len(arrived.audio)
    /\ \A i, j \in 1..Len(schedule) :
          i < j => schedule[i].start <= schedule[j].start
    /\ Spoken("user", transcript) \o currentTurn.user = arrived.user
    /\ Spoken("model", transcript) \o currentTurn.model = arrived.model

\* Two chunks of different length started in the order they arrived, behind
\* two fragments of the user in the order they arrived.
C15_Witness ==
    /\ awaiting = <<>>
    /\ Len(schedule) = 2
    /\ arrived.audio = <<4, 2>>
    /\ schedule[1].start < schedule[2].start
    /\ arrived.user = <<"y", "h">>
    /\ currentTurn.user = <<"y", "h">>

\* ------------------------------------------------------------------------
\* C16: the cursor over the life of a session
\* ------------------------------------------------------------------------
\* The states the operations that flush nothing lead to: a message without
\* interrupted, a move of the speed slider, Pause/Resume and the settling of
\* its promise.
AfterNonFlush(w) ==
    {onmessage(w, msg) : msg \in {m \in AudioMessages : ~m.interrupted}}
    \cup {RateEffect([w EXCEPT !.playbackRate = r]) : r \in Rates}
    \cup {handlePauseResume(w), SettleCtxOp(handlePauseResume(w))}

\* The states the flushes lead to: the Stop button, an interrupted message,
\* the end of the session.
AfterFlush(w) ==
    {onmessage(w, msg) : msg \in {m \in AudioMessages :
                                     m.interrupted /\ (m.audio # 0 => m.audioValid)}}
    \cup {handleStopPlayback(w), stopConversation(w, TRUE), stopConversation(w, FALSE)}

\* C16, as stated.  No operation of a live session lowers nextStartTimeRef:
\* not a buffer, a rate change, Pause/Resume, Stop or an interrupted event.
C16_CursorNeverLowered ==
    \A v \in AfterNonFlush(World) \cup AfterFlush(World) :
        v.nextStartTimeRef >= nextStartTimeRef

\* C16, amended.  Only a flush lowers nextStartTimeRef: a buffer, a rate
\* change and Pause/Resume leave it where it was or later, while Stop, an
\* interrupted event and the end of the session put it back to 0.
C16_CursorLoweredOnlyByFlush ==
    /\ \A v \in AfterNonFlush(World) : v.nextStartTimeRef >= nextStartTimeRef
    /\ \A v \in AfterFlush(World) : v.nextStartTimeRef = ResetCursor

\* Stop lowered a cursor that was ahead of the clock, and the buffer that
\* arrived afterwards raised it again, to a value below the one before Stop.
C16_Witness ==
    /\ ~lastFlush.interrupted
    /\ lastFlush.at > 0
    /\ lastFlush.cursor > lastFlush.at
    /\ Len(schedule) = 1
    /\ schedule[1].start < nextStartTimeRef
    /\ nextStartTimeRef < lastFlush.cursor

\* ------------------------------------------------------------------------
\* C17: what a flush leaves behind
\* ------------------------------------------------------------------------
\* Every source that was in sourcesRef is stopped and the set is empty.
FlushedFrom(w, v) ==
    /\ v.sourcesRef = {}
    /\ \A n \in v.nodes : n \in w.nodes /\ n.start \notin w.sourcesRef

\* C17, as stated.  A flush (Stop, an interrupted event, session stop) stops
\* every source of the scheduled set, leaves the set empty and leaves
\* nextStartTimeRef equal to the reading of the playback clock.
C17_FlushLeavesCursorAtClock ==
    \A v \in AfterFlush(World) :
        FlushedFrom(World, v) /\ v.nextStartTimeRef = currentTime

\* C17, amended.  A flush stops every source of the scheduled set, leaves
\* the set empty and leaves nextStartTimeRef at 0, which is never later than
\* the playback clock: a buffer that arrives next starts at the clock
\* reading of its arrival.
C17_FlushLeavesCursorAtZero ==
    \A v \in AfterFlush(World) :
        /\ FlushedFrom(World, v)
        /\ v.nextStartTimeRef = ResetCursor
        /\ v.nextStartTimeRef <= v.currentTime
        /\ \A d \in Durations :
              LET next == onmessage(v, [NoMessage EXCEPT !.audio = d])
              IN /\ Len(next.schedule) = 1
                 /\ next.schedule[1].start = v.currentTime

\* A flush at a clock reading past 0 stopped sources scheduled ahead of the
\* clock and left the cursor at 0, behind the clock.
C17_Witness ==
    /\ lastFlush.at > 0
    /\ lastFlush.cursor > lastFlush.at
    /\ schedule = <<>>
    /\ nodes = {} /\ sourcesRef = {}
    /\ nextStartTimeRef = ResetCursor
    /\ nextStartTimeRef < currentTime

\* ------------------------------------------------------------------------
\* C18: a flush and a chunk that is being decoded
\* ------------------------------------------------------------------------
\* The step is a flush: Stop, an interrupted event or the end of the session.
FlushStep == lastFlush' # lastFlush /\ lastFlush' # NoFlush

\* C18.  A flush is not defeated by a chunk that is being decoded: the step
\* that flushes leaves no source playing or scheduled and no handler
\* suspended in decodeAudioData that would start its chunk afterwards, so
\* every source that plays was started since the last flush, from a chunk
\* that arrived since the last flush.
C18_FlushNotDefeated ==
    /\ [][FlushStep => /\ nodes' = {}
                       /\ sourcesRef' = {}
                       /\ schedule' = <<>>
                       /\ awaiting' = <<>>]_vars
    /\ [](\A n \in nodes :
            \E i \in 1..Len(schedule) :
                n.start = schedule[i].start /\ n.duration = schedule[i].duration)
    /\ [](Len(schedule) <= Len(arrived.audio))

\* A message brought a chunk and interrupted: its handler was suspended in
\* the decode, started the chunk when it resumed and flushed it at once.
C18_Witness ==
    /\ lastFlush.decoded
    /\ lastFlush.interrupted
    /\ lastFlush.cursor > lastFlush.at
    /\ nodes = {} /\ sourcesRef = {}
    /\ schedule = <<>>
    /\ awaiting = <<>>
    /\ arrived.audio = <<>>

\* ------------------------------------------------------------------------
\* C19, C20: the speaker switch and the states of the aggregator
\* ------------------------------------------------------------------------
\* A fragment of output text that does not complete the turn.
SwitchMessages == {m \in TextMessages : m.hasOutput /\ ~m.turnComplete}

\* C19.  An output fragment that arrives while user text is pending first
\* finalizes the user text (trimmed; dropped when nothing is left, else added
\* to the transcript as a user entry, without the input fragment of the same
\* message) and then appends the fragment to the pending model text; at the
\* turn-complete that follows, the model entry with that fragment comes
\* after the user entry.
C19_SpeakerSwitch ==
    (mounted /\ currentTurn.user # <<>>) =>
        \A msg \in SwitchMessages :
            LET after == onmessage(World, msg)
                added == Added(msg)
                done == onmessage(after, TurnCompleteOnly)
                all == SubSeq(done.transcript, Len(transcript) + 1,
                              Len(done.transcript))
            IN /\ IF Trim(currentTurn.user) = <<>>
                  THEN added = <<>>
                  ELSE /\ Len(added) = 1
                       /\ added[1].speaker = "user"
                       /\ SameUpToMask(added[1].text, Trim(currentTurn.user))
               /\ after.currentTurn.user =
                     (IF msg.hasInput THEN msg.inputText ELSE <<>>)
               /\ after.currentTurn.model = currentTurn.model \o msg.outputText
               /\ SubSeq(all, 1, Len(added)) = added
               /\ after.currentTurn.model # <<>> =>
                     /\ all # <<>>
                     /\ all[Len(all)].speaker = "model"
                     /\ all[Len(all)].text = currentTurn.model \o msg.outputText
                     /\ Len(all) > Len(added)

\* The user said "hi", the model began to answer "hey": the user entry is in
\* the transcript and the answer is pending.
C19_Witness ==
    /\ transcript = <<UserEntry(<<"h","i">>)>>
    /\ currentTurn.user = <<>>
    /\ currentTurn.model = <<"h","e","y">>

\* C20.  The aggregator is idle, accumulating the user or accumulating the
\* model: pending user text and pending model text are never both non-empty.
C20_OneSpeakerPending ==
    ~(currentTurn.user # <<>> /\ currentTurn.model # <<>>)

\* ------------------------------------------------------------------------
\* C21: the text of a finalized turn
\* ------------------------------------------------------------------------
\* The entries of one speaker that the updater hands to setTranscript over
\* two fragments and a turn-complete, from the pending turn on.
RecordedFrom(turn, speaker, f, g) ==
    LET wrap(x) == IF speaker = "user" THEN InputOf(NoMessage, x)
                   ELSE OutputOf(NoMessage, x)
        t1 == NewTurn(turn, wrap(f))
        t2 == NewTurn(t1, wrap(g))
        added == TranscriptUpdates(turn, wrap(f))
                    \o TranscriptUpdates(t1, wrap(g))
                    \o TranscriptUpdates(t2, TurnCompleteOnly)
    IN SelectSeq(added, LAMBDA e : e.speaker = speaker)

\* Two fragments in a row: in either order, twice the same, with white space
\* before, between and after, a listed word alone and inside a longer word.
FragmentPairs ==
    { <<f, g>> : f \in {<<"h","i">>, <<"h","e","y">>}, g \in {<<"h","i">>, <<"h","e","y">>} }
    \cup { <<f, g>> : f \in {<<>>, <<" ">>}, g \in {<<>>, <<" ">>} }
    \cup { <<<<" ">>, <<"h","i">>>>, <<<<"h","i">>, <<" ">>>>,
           <<<<"d","a","r","n">>, <<" ">>>>, <<<<" ">>, <<"d","a","r","n">>>>,
           <<<<"d","a","r","n">>, <<"h","i">>>>, <<<<"h","i">>, <<"d","a","r","n">>>> }

\* C21, as stated.  The text of a finalized turn is the fragments of its
\* speaker since the speaker's last finalization, joined in arrival order
\* (and trimmed for the user), with no other change.
C21_TextIsConcatenation ==
    mounted =>
        \A p \in FragmentPairs :
          LET f == p[1]
              g == p[2]
          IN
            /\ currentTurn.user = <<>> =>
                  LET users == RecordedFrom(currentTurn, "user", f, g)
                  IN IF Trim(f \o g) = <<>> THEN users = <<>>
                     ELSE /\ Len(users) = 1
                          /\ users[1].text = Trim(f \o g)
            /\ currentTurn.model = <<>> =>
                  LET models == RecordedFrom(currentTurn, "model", f, g)
                  IN IF f \o g = <<>> THEN models = <<>>
                     ELSE /\ Len(models) = 1
                          /\ models[1].text = f \o g

\* C21, amended.  The text of a finalized model turn is the fragments of
\* the model since its last finalization, joined in arrival order; that of
\* a user turn is the joined fragments trimmed and with every whole word of
\* SFW_PROFANITY_LIST replaced by asterisks.
C21_TextIsMaskedConcatenation ==
    [](mounted =>
            \A p \in FragmentPairs :
              LET f == p[1]
                  g == p[2]
              IN
                /\ currentTurn.user = <<>> =>
                      LET users == RecordedFrom(currentTurn, "user", f, g)
                      IN IF Trim(f \o g) = <<>> THEN users = <<>>
                         ELSE /\ Len(users) = 1
                              /\ users[1].text = filterProfanity(Trim(f \o g))
                              /\ (f = <<"d","a","r","n">> /\ g = <<"h","i">>) =>
                                    users[1].text = f \o g
                              /\ (f = <<"d","a","r","n">> /\ g = <<" ">>) =>
                                    users[1].text = Stars(4)
                /\ currentTurn.model = <<>> =>
                      LET models == RecordedFrom(currentTurn, "model", f, g)
                      IN IF f \o g = <<>> THEN models = <<>>
                         ELSE /\ Len(models) = 1
                              /\ models[1].text = f \o g)

\* The user said "darn": the transcript holds four asterisks.
C21_Witness ==
    /\ transcript = <<UserEntry(Stars(4))>>
    /\ currentTurn = EmptyTurn

\* ------------------------------------------------------------------------
\* C22: the transcript between two starts
\* ------------------------------------------------------------------------
IsPrefix(a, b) == Len(a) <= Len(b) /\ SubSeq(b, 1, Len(a)) = a

\* The states the operations that are no message with text lead to: Stop, an
\* interrupted event, Pause/Resume and its promise, a rate change, the end
\* of the session.
AfterControl(w) ==
    {handleStopPlayback(w), handlePauseResume(w), SettleCtxOp(handlePauseResume(w)),
     onmessage(w, [NoMessage EXCEPT !.interrupted = TRUE]),
     onmessage(w, [NoMessage EXCEPT !.audio = 2]),
     stopConversation(w, TRUE), stopConversation(w, FALSE)}
    \cup {RateEffect([w EXCEPT !.playbackRate = r]) : r \in Rates}

\* C22.  Between one startConversation and the next the transcript only
\* grows at its end: every step that is no start keeps the entries there
\* are as a prefix of the new transcript, and so do Stop, an interrupted
\* event, Pause/Resume, a rate change and stopConversation.
C22_TranscriptAppendOnly ==
    /\ [][starts' = starts => IsPrefix(transcript, transcript')]_vars
    /\ [](\A v \in AfterControl(World) : v.transcript = transcript)

\* The transcript grew twice in one session, by the user's turn of one
\* message and by the user's turn of a later one.
C22_Witness ==
    /\ starts = 1
    /\ transcript = <<UserEntry(<<"h","i">>), UserEntry(<<"h","e","y">>)>>

\* ------------------------------------------------------------------------
\* C23: Pause and Resume
\* ------------------------------------------------------------------------
\* The step is a click on Pause/Resume or the settling of its promise.
PauseResumeStep == ctxOps' # ctxOps /\ committed' = committed

\* C23.  Pause and Resume change only whether the playback clock runs: the
\* click and the settling of its promise leave the cursor, the scheduled
\* set and the clock as they are, and while the context is suspended the
\* clock stands still and no scheduled buffer leaves the schedule or
\* changes its place or its start time, so after Resume every buffer
\* scheduled before the pause is still scheduled as it was.
C23_PauseKeepsSchedule ==
    /\ [][PauseResumeStep =>
            /\ nextStartTimeRef' = nextStartTimeRef
            /\ sourcesRef' = sourcesRef
            /\ nodes' = nodes
            /\ schedule' = schedule
            /\ currentTime' = currentTime]_vars
    /\ [][(ctxState = "suspended" /\ committed' = committed) =>
            /\ currentTime' = currentTime
            /\ nodes \subseteq nodes'
            /\ sourcesRef \subseteq sourcesRef'
            /\ IsPrefix(schedule, schedule')]_vars

\* Two buffers were scheduled, playback is paused with both still scheduled
\* ahead of the clock, and Resume has been clicked.
C23_Witness ==
    /\ ctxState = "suspended" /\ isPaused
    /\ ctxOps = <<"resume">>
    /\ Len(schedule) = 2
    /\ Cardinality(nodes) = 2
    /\ sourcesRef = {n.start : n \in nodes}
    /\ nextStartTimeRef > currentTime

\* ------------------------------------------------------------------------
\* C24: a change of the playback rate
\* ------------------------------------------------------------------------
\* The start times of the sources in the audio graph.
StartsOf(ns) == {n.start : n \in ns}

\* C24.  A change of the playback rate leaves the cursor, the scheduled set
\* and the start times of the scheduled buffers as they are, and sets the
\* rate of every buffer in the scheduled set; every buffer scheduled later
\* gets the rate too: at all times every source of the scheduled set plays
\* at the rate of the speed control.
C24_RateChange ==
    /\ [][playbackRate' # playbackRate =>
            /\ nextStartTimeRef' = nextStartTimeRef
            /\ sourcesRef' = sourcesRef
            /\ StartsOf(nodes') = StartsOf(nodes)
            /\ schedule' = schedule
            /\ \A n \in nodes' : n.start \in sourcesRef' => n.rate = playbackRate']_vars
    /\ [](playbackRateRef = playbackRate)
    /\ [](\A n \in nodes : n.start \in sourcesRef => n.rate = playbackRate)

\* Two buffers were scheduled at 1.0x, the speed was set to 2.0x and a third
\* buffer was scheduled: all three play at 2.0x and the first two start
\* where they were scheduled.
C24_Witness ==
    /\ playbackRate = MaxRate
    /\ Len(schedule) = 3
    /\ schedule[1].rate = DefaultRate /\ schedule[2].rate = DefaultRate
    /\ schedule[3].rate = MaxRate
    /\ Cardinality(nodes) = 3
    /\ \A n \in nodes : n.rate = MaxRate
    /\ StartsOf(nodes) = {schedule[i].start : i \in 1..3}

\* ------------------------------------------------------------------------
\* C25, C26: what ends a session and what an idle panel leaves behind
\* ------------------------------------------------------------------------
\* The step closes a channel: onclose.
ChannelCloses == \E a \in Attempts : att[a].chan # "closed" /\ att[a].chan' = "closed"

\* C25.  An active session stays active until the user presses End
\* Conversation (shown while the rendered isActive is true), the channel
\* closes or the panel unmounts: no other step, and not the render that
\* follows onopen, takes isActive back or has the client close the channel.
C25_ActiveUntilEnded ==
    [][(mounted /\ mounted' /\ isActive /\ ~committed.isActive /\ ~ChannelCloses) =>
          /\ isActive'
          /\ \A a \in Attempts :
                att[a].chan = "open" =>
                    /\ att[a].chan' = "open"
                    /\ att[a].mic' = att[a].mic
                    /\ att[a].stopped' = att[a].stopped]_vars

\* The panel is rendered idle: both flags are false and rendered so.
Idle ==
    /\ mounted
    /\ ~isActive /\ ~isConnecting
    /\ committed = [isActive |-> FALSE, isConnecting |-> FALSE]

\* C26.  While the panel is idle, every start attempt made so far has its
\* microphone stream stopped, if it got one, and no channel that is open.
C26_IdleHoldsNothing ==
    Idle =>
        \A a \in Attempts :
            /\ att[a].mic # "live"
            /\ att[a].chan # "open"

\* ------------------------------------------------------------------------
\* C27: Stop while a suspend or resume is pending
\* ------------------------------------------------------------------------
RECURSIVE SettleAll(_)
\* Every pending promise of suspend() and resume() settles, oldest first.
SettleAll(w) == IF w.ctxOps = <<>> THEN w ELSE SettleAll(SettleCtxOp(w))

\* C27.  Stop never leaves playback paused: whatever Pause/Resume clicks
\* came before, once the promises pending after handleStopPlayback (from
\* the Stop button or an interrupted event) have settled, the output
\* context runs and isPaused is false.
C27_StopLeavesPlaybackRunning ==
    mounted =>
        \A v \in {handleStopPlayback(World),
                   onmessage(World, [NoMessage EXCEPT !.interrupted = TRUE])} :
            /\ SettleAll(v).ctxState = "running"
            /\ ~SettleAll(v).isPaused
\* ------------------------------------------------------------------------
\* C28: a status check of an earlier video generation
\* ------------------------------------------------------------------------
\* A checkVideoOperation call of an operation older than the latest
\* handleGenerate call settles.
StaleCheckSettles ==
    \E o \in VideoOps :
        /\ o < video.generations
        /\ video'.checks[o] < video.checks[o]

\* C28.  A status check of an earlier generation that settles after
\* handleGenerate has started a new one changes nothing of the new one: the
\* polling timers alive, the loading state, the video URL and the error
\* stay as they are.
C28_StaleCheckIsIgnored ==
    [][StaleCheckSettles =>
          /\ video'.timers = video.timers
          /\ video'.isLoading = video.isLoading
          /\ video'.videoUrl = video.videoUrl
          /\ video'.error = video.error]_vars
\* ------------------------------------------------------------------------
\* C29: a failed choice in the adventure game
\* ------------------------------------------------------------------------
\* The catch block of handleChoice runs.
ChoiceFails ==
    /\ game.call.kind = "choice"
    /\ game'.call.kind = "none"
    /\ game'.error = "snag"

\* C29.  A failed choice leaves the game as it was before the choice: the
\* story, the inventory, the quest and the image are those shown when the
\* choice was made, and the same choices are offered again.
C29_FailedChoiceKeepsGame ==
    [][ChoiceFails => Shown(game') = game.call.before]_vars
\* ------------------------------------------------------------------------
\* C30: a failed send in the chat panel
\* ------------------------------------------------------------------------
\* The catch block of handleSend runs.
SendFails ==
    /\ chat.send.stage # "none"
    /\ chat'.send.stage = "none"
    /\ chat'.error = "failed"

\* C30.  A failed send removes the empty model placeholder of that send and
\* nothing else: the message removed is the placeholder, still empty, and
\* the list then ends with the user's message.
C30_FailedSendRemovesPlaceholderOnly ==
    [][SendFails =>
          /\ chat.messages # <<>>
          /\ chat.messages[Len(chat.messages)] = Placeholder
          /\ chat'.messages = DropLast(chat.messages)
          /\ chat'.messages # <<>>
          /\ chat'.messages[Len(chat'.messages)].role = "user"]_vars
====
